---- MODULE Spec2Model ----
(***************************************************************************)
(* rxfs (src/util/rxfs.js), the static file server behind tsk-serve:       *)
(* Config construction, the per-request object R (path resolution), the    *)
(* request handler RXFS.handle and its three responders sendStatus,        *)
(* sendFile and sendDir.                                                   *)
(*                                                                         *)
(* Strings are sequences of one-character strings, so that the string      *)
(* operations of the code (replace, startsWith, decodeURIComponent, the    *)
(* slash regexes) are computed character by character.  The file name      *)
(* "index.html" is the one multi-character token: no operation of the code *)
(* looks inside it for the base URLs of this model (none shares a          *)
(* character with it).                                                     *)
(***************************************************************************)
EXTENDS Integers, Sequences, FiniteSets, TLC

VARIABLES
  opts,      \* the options object given to new RXFS(opts)
  config,    \* RXFS.config
  server,    \* "none" before construction, then "listening", or "failed" when it threw
  fsys,      \* the filesystem: FsPaths -> node
  reqcount,  \* RXFS.reqcount
  rs,        \* the R objects in arrival order, each with its response and read stream
  log,       \* the lines given to RXFS.log
  crashed    \* an exception left a listener uncaught: the process is gone

vars == <<opts, config, server, fsys, reqcount, rs, log, crashed>>

----------------------------------------------------------------------------
(* Bounds of the model.                                                    *)

\* requests handled in one run of the server
MaxReqs == 2
\* chunks a read stream emits before it ends
MaxChunks == 2
\* pieces (after the leading slash) a request URL of SpecResolve is built from
MaxPieces == 3

----------------------------------------------------------------------------
(* JavaScript string operations on character sequences.                    *)

Str(c) == <<c>>

\* s.slice(from) with a 1-based start
Drop(s, n) == IF n >= Len(s) THEN <<>> ELSE SubSeq(s, n + 1, Len(s))

\* String.prototype.startsWith
StartsWith(s, p) == Len(p) <= Len(s) /\ SubSeq(s, 1, Len(p)) = p

\* String.prototype.indexOf, 1-based; 0 when p does not occur in s
IndexOf(s, p) ==
  LET hits == {i \in 1..(Len(s) - Len(p) + 1) : SubSeq(s, i, i + Len(p) - 1) = p}
  IN  IF hits = {} THEN 0 ELSE CHOOSE i \in hits : \A j \in hits : i <= j

\* s.replace(p, '') with a string pattern p: the first occurrence only
RemoveFirst(s, p) ==
  LET i == IndexOf(s, p)
  IN  IF i = 0 THEN s ELSE SubSeq(s, 1, i - 1) \o Drop(s, i + Len(p) - 1)

\* s.replace(/\/{2,}/g, '/')
RECURSIVE CollapseSlashes(_)
CollapseSlashes(s) ==
  IF Len(s) < 2 THEN s
  ELSE IF s[1] = "/" /\ s[2] = "/" THEN CollapseSlashes(Tail(s))
  ELSE <<s[1]>> \o CollapseSlashes(Tail(s))

KeepLeadingSlash(s) == s

\* s.replace(/^\//g, ''): one leading slash
StripLeadingSlash(s) == IF Len(s) > 0 /\ s[1] = "/" THEN Tail(s) ELSE s

\* s.replace(/\/$/g, ''): one trailing slash
StripTrailingSlash(s) ==
  IF Len(s) > 0 /\ s[Len(s)] = "/" THEN SubSeq(s, 1, Len(s) - 1) ELSE s

\* the three replaces the code chains on the base URL and on the request URL
Normalize(s) == StripTrailingSlash(StripLeadingSlash(CollapseSlashes(s)))

----------------------------------------------------------------------------
(* decodeURIComponent.                                                     *)

HexDigits ==
  {"0", "1", "2", "3", "4", "5", "6", "7", "8", "9",
   "A", "B", "C", "D", "E", "F", "a", "b", "c", "d", "e", "f"}

HexVal(c) ==
  CASE c = "0" -> 0 [] c = "1" -> 1 [] c = "2" -> 2 [] c = "3" -> 3
    [] c = "4" -> 4 [] c = "5" -> 5 [] c = "6" -> 6 [] c = "7" -> 7
    [] c = "8" -> 8 [] c = "9" -> 9
    [] c \in {"A", "a"} -> 10 [] c \in {"B", "b"} -> 11
    [] c \in {"C", "c"} -> 12 [] c \in {"D", "d"} -> 13
    [] c \in {"E", "e"} -> 14 [] c \in {"F", "f"} -> 15

\* the printable ASCII characters, code 32 first
Printable ==
  <<" ", "!", "<quote>", "#", "$", "%", "&", "'", "(", ")", "*", "+", ",", "-", ".", "/",
    "0", "1", "2", "3", "4", "5", "6", "7", "8", "9", ":", ";", "<", "=", ">", "?",
    "@", "A", "B", "C", "D", "E", "F", "G", "H", "I", "J", "K", "L", "M", "N", "O",
    "P", "Q", "R", "S", "T", "U", "V", "W", "X", "Y", "Z", "[", "<backslash>", "]", "^", "_",
    "<backtick>", "a", "b", "c", "d", "e", "f", "g", "h", "i", "j", "k", "l", "m", "n", "o",
    "p", "q", "r", "s", "t", "u", "v", "w", "x", "y", "z", "{", "|", "}", "~">>

\* the character of a byte below 128; the control characters are one token, the
\* double quote, the backslash and the backtick are written as tokens
AsciiChar(b) == IF b >= 32 /\ b <= 126 THEN Printable[b - 31] ELSE "<ctl>"

\* whether s starts with a well-formed escape %XX, and its byte
IsEscape(s) == Len(s) >= 3 /\ s[1] = "%" /\ s[2] \in HexDigits /\ s[3] \in HexDigits

EscapeByte(s) == 16 * HexVal(s[2]) + HexVal(s[3])

\* continuation bytes a UTF-8 lead byte asks for; -1 for a byte that leads nothing
ContinuationCount(b) ==
  IF b < 128 THEN 0
  ELSE IF b >= 194 /\ b <= 223 THEN 1
  ELSE IF b >= 224 /\ b <= 239 THEN 2
  ELSE IF b >= 240 /\ b <= 244 THEN 3
  ELSE -1

\* s starts with n escapes that are UTF-8 continuation bytes (0x80..0xBF)
RECURSIVE HasContinuations(_, _)
HasContinuations(s, n) ==
  IF n = 0 THEN TRUE
  ELSE /\ IsEscape(s)
       /\ EscapeByte(s) >= 128 /\ EscapeByte(s) <= 191
       /\ HasContinuations(Drop(s, 3), n - 1)

\* [ok |-> FALSE] is the URIError; a decoded non-ASCII character is the token "<u>";
\* acc is what the characters before s decoded to
RECURSIVE DecodeFrom(_, _)
DecodeFrom(s, acc) ==
  IF s = <<>> THEN [ok |-> TRUE, val |-> acc]
  ELSE IF s[1] # "%" THEN DecodeFrom(Tail(s), Append(acc, s[1]))
  ELSE IF ~IsEscape(s) THEN [ok |-> FALSE, val |-> <<>>]
  ELSE IF ContinuationCount(EscapeByte(s)) < 0 THEN [ok |-> FALSE, val |-> <<>>]
  ELSE IF ContinuationCount(EscapeByte(s)) = 0
    THEN DecodeFrom(Drop(s, 3), Append(acc, AsciiChar(EscapeByte(s))))
  ELSE IF ~HasContinuations(Drop(s, 3), ContinuationCount(EscapeByte(s)))
    THEN [ok |-> FALSE, val |-> <<>>]
  ELSE DecodeFrom(Drop(s, 3 + 3 * ContinuationCount(EscapeByte(s))), Append(acc, "<u>"))

\* try { url = decodeURIComponent(url) } catch {}
DecodeOrRaw(url) ==
  IF DecodeFrom(url, <<>>).ok THEN DecodeFrom(url, <<>>).val ELSE url

----------------------------------------------------------------------------
(* Paths: path.resolve, and the lookup the operating system does.          *)

\* s.split('/')
RECURSIVE Split(_)
Split(s) ==
  LET i == IndexOf(s, <<"/">>)
  IN  IF i = 0 THEN <<s>> ELSE <<SubSeq(s, 1, i - 1)>> \o Split(Drop(s, i))

\* the names of a path with '', '.' and '..' resolved lexically, onto the names in acc
RECURSIVE LexNames(_, _)
LexNames(acc, comps) ==
  IF comps = <<>> THEN acc
  ELSE LET c == Head(comps)
       IN  IF c = <<>> \/ c = <<".">> THEN LexNames(acc, Tail(comps))
           ELSE IF c = <<".", ".">>
             THEN LexNames(IF acc = <<>> THEN acc ELSE SubSeq(acc, 1, Len(acc) - 1),
                           Tail(comps))
           ELSE LexNames(Append(acc, c), Tail(comps))

\* '/' + names.join('/'), '/' alone for no names
RECURSIVE JoinAbs(_)
JoinAbs(names) ==
  IF names = <<>> THEN <<"/">>
  ELSE IF Len(names) = 1 THEN <<"/">> \o names[1]
  ELSE <<"/">> \o names[1] \o JoinAbs(Tail(names))

\* process.cwd()
Cwd == <<"/", "r">>

\* path.resolve(p): absolute, normalized, no trailing slash
PathResolve(p) ==
  IF StartsWith(p, <<"/">>) THEN JoinAbs(LexNames(<<>>, Split(p)))
  ELSE JoinAbs(LexNames(<<>>, Split(Cwd \o <<"/">> \o p)))

IndexHtml == <<"index.html">>

\* the paths of the model's filesystem, as name sequences from '/'
FsPaths ==
  { <<Str("r")>>,
    <<Str("r"), Str("x")>>,
    <<Str("r"), Str("x"), IndexHtml>>,
    <<Str("r"), IndexHtml>>,
    <<Str("x")>> }

Absent   == [kind |-> "none", r |-> FALSE, x |-> FALSE]
File     == [kind |-> "file", r |-> TRUE,  x |-> FALSE]
Etc      == [kind |-> "etc",  r |-> TRUE,  x |-> FALSE]
Dir      == [kind |-> "dir",  r |-> TRUE,  x |-> TRUE]
\* a directory without read permission: stat succeeds, readdir fails
DirNoList   == [kind |-> "dir", r |-> FALSE, x |-> TRUE]
\* a directory without search permission: readdir succeeds, stat of a child fails
DirNoSearch == [kind |-> "dir", r |-> TRUE, x |-> FALSE]

\* the node at a name sequence; '/' itself is a directory
Node(fs, names) ==
  IF names = <<>> THEN Dir
  ELSE IF names \in DOMAIN fs THEN fs[names] ELSE Absent

\* a filesystem: every existing node lies in an existing directory
FsConsistent(fs) ==
  \A p \in DOMAIN fs :
    (fs[p].kind # "none" /\ Len(p) > 1) => Node(fs, SubSeq(p, 1, Len(p) - 1)).kind = "dir"

\* path lookup from the directory cur: [err, names]
RECURSIVE Walk(_, _, _)
Walk(fs, cur, comps) ==
  IF comps = <<>> THEN [err |-> "", names |-> cur]
  ELSE LET c == Head(comps)
           here == Node(fs, cur)
       IN  IF c = <<>> THEN Walk(fs, cur, Tail(comps))
           ELSE IF here.kind # "dir" THEN [err |-> "ENOTDIR", names |-> cur]
           ELSE IF ~here.x THEN [err |-> "EACCES", names |-> cur]
           ELSE IF c = <<".">> THEN Walk(fs, cur, Tail(comps))
           ELSE IF c = <<".", ".">>
             THEN Walk(fs, IF cur = <<>> THEN cur ELSE SubSeq(cur, 1, Len(cur) - 1),
                       Tail(comps))
           ELSE IF Node(fs, Append(cur, c)).kind = "none"
             THEN [err |-> "ENOENT", names |-> cur]
           ELSE Walk(fs, Append(cur, c), Tail(comps))

\* fs.statSync(abs): [err, kind]; err # "" is the exception thrown
StatSync(fs, abs) ==
  LET w == Walk(fs, <<>>, Split(abs))
  IN  IF w.err # "" THEN [err |-> w.err, kind |-> "none"]
      ELSE [err |-> "", kind |-> Node(fs, w.names).kind]

\* fs.existsSync(abs): never throws
ExistsSync(fs, abs) == StatSync(fs, abs).err = ""

\* the entries of the directory at names
Children(fs, names) ==
  {p \in DOMAIN fs : /\ Len(p) = Len(names) + 1
                     /\ SubSeq(p, 1, Len(names)) = names
                     /\ fs[p].kind # "none"}

\* fs.readdirSync(abs): [err, names, entries]
ReaddirSync(fs, abs) ==
  LET w == Walk(fs, <<>>, Split(abs))
  IN  IF w.err # "" THEN [err |-> w.err, names |-> <<>>, entries |-> {}]
      ELSE IF Node(fs, w.names).kind # "dir"
        THEN [err |-> "ENOTDIR", names |-> w.names, entries |-> {}]
      ELSE IF ~Node(fs, w.names).r
        THEN [err |-> "EACCES", names |-> w.names, entries |-> {}]
      ELSE [err |-> "", names |-> w.names, entries |-> Children(fs, w.names)]

----------------------------------------------------------------------------
(* Config.  An option value is [t, s, n, b, h]: its typeof and, by type,   *)
(* the string, number, boolean or header map it holds; Missing is a key    *)
(* the options object does not have.                                       *)

Missing == [t |-> "undefined", s |-> <<>>, n |-> 0, b |-> FALSE, h |-> <<>>]

StrOpt(s)  == [t |-> "string",  s |-> s,    n |-> 0, b |-> FALSE, h |-> <<>>]
NumOpt(n)  == [t |-> "number",  s |-> <<>>, n |-> n, b |-> FALSE, h |-> <<>>]
BoolOpt(b) == [t |-> "boolean", s |-> <<>>, n |-> 0, b |-> b,     h |-> <<>>]
\* a header map: a sequence of [name, t, value], t the typeof of the value
ObjOpt(h)  == [t |-> "object",  s |-> <<>>, n |-> 0, b |-> FALSE, h |-> h]

ConfigKeys == {"root", "port", "baseurl", "autoindex", "servedir", "headers", "mimes"}

\* the keys an options object of the model may have: Config's and one more
OptKeys == ConfigKeys \cup {"colour"}

DefaultHeaders ==
  <<[name |-> "cache-control", t |-> "string",
     value |-> "public, max-age=604800, immutable"]>>

\* the class fields of Config
Defaults ==
  [root      |-> StrOpt(<<".">>),
   port      |-> NumOpt(1234),
   baseurl   |-> StrOpt(<<"/">>),
   autoindex |-> BoolOpt(FALSE),
   servedir  |-> BoolOpt(TRUE),
   headers   |-> ObjOpt(DefaultHeaders),
   mimes     |-> ObjOpt(<<>>)]

\* this[key] = opts[key] for every key of opts
Merged(o) == [k \in ConfigKeys |-> IF o[k] # Missing THEN o[k] ELSE Defaults[k]]

ConfigError(msg) ==
  [ok |-> FALSE, err |-> msg, root |-> <<>>, port |-> 0, baseurl |-> <<>>,
   autoindex |-> FALSE, servedir |-> FALSE, headers |-> <<>>, mimes |-> <<>>]

NoExclusionCheck(m) == FALSE

\* if (this.autoindex && this.servedir) throw
MutuallyExclusive(m) == m.autoindex.b /\ m.servedir.b

\* new Config(opts)
NewConfig(o) ==
  IF \E k \in OptKeys \ ConfigKeys : o[k] # Missing
    THEN ConfigError("unrecognized option")
  ELSE IF \E k \in ConfigKeys : o[k] # Missing /\ o[k].t # Defaults[k].t
    THEN ConfigError("type error")
  ELSE LET m == Merged(o)
       IN  IF m.root.s = <<>> THEN ConfigError("config.root can't be an empty string")
           ELSE IF m.port.n < 1 \/ m.port.n > 65535 THEN ConfigError("invalid port")
           ELSE IF MutuallyExclusive(m)
             THEN ConfigError("autoindex and servedir are mutually exclusive")
           ELSE IF \E i \in 1..Len(m.headers.h) : m.headers.h[i].t # "string"
             THEN ConfigError("config.headers values must be strings")
           ELSE IF \E i \in 1..Len(m.mimes.h) : m.mimes.h[i].t # "string"
             THEN ConfigError("config.mimes values must be strings")
           ELSE [ok |-> TRUE, err |-> "",
                 root      |-> PathResolve(m.root.s),
                 port      |-> m.port.n,
                 baseurl   |-> Normalize(m.baseurl.s),
                 autoindex |-> m.autoindex.b,
                 servedir  |-> m.servedir.b,
                 headers   |-> m.headers.h,
                 mimes     |-> m.mimes.h]

\* the configuration before construction
NoConfig == ConfigError("not constructed")

----------------------------------------------------------------------------
(* The request object R and the response it carries.                       *)

\* n.toString() for n >= 0
RECURSIVE Digits(_)
Digits(n) ==
  LET d == <<"0", "1", "2", "3", "4", "5", "6", "7", "8", "9">>[(n % 10) + 1]
  IN  IF n < 10 THEN <<d>> ELSE Digits(n \div 10) \o <<d>>

\* s.padStart(3, '0')
RECURSIVE PadStart3(_)
PadStart3(s) == IF Len(s) >= 3 THEN s ELSE PadStart3(<<"0">> \o s)

\* (this.reqcount++).toString().padStart(3, '0')
RequestId(n) == PadStart3(Digits(n))

\* url.replace(baseurl, '').replace(/\/{2,}/g, '/').replace(/^\//g, '').replace(/\/$/g, '')
ResolveRel(cfg, url) == Normalize(RemoveFirst(DecodeOrRaw(url), cfg.baseurl))

\* root + '/' + rel, or root alone; a leading '//' loses one slash
ResolveAbs(cfg, rel) ==
  LET abs == IF rel # <<>> THEN cfg.root \o <<"/">> \o rel ELSE cfg.root
  IN  IF StartsWith(abs, <<"/", "/">>) THEN Tail(abs) ELSE abs

NeverSubstitutes(cfg, fs, abs) == FALSE

\* rxfs.config.autoindex && fs.existsSync(`${ this.abs }/index.html`)
Substitutes(cfg, fs, abs) ==
  cfg.autoindex /\ ExistsSync(fs, abs \o <<"/">> \o IndexHtml)

\* where the map has the key; 0 when it has not
KeyIndex(hs, name) ==
  IF \E k \in 1..Len(hs) : hs[k].name = name
    THEN CHOOSE k \in 1..Len(hs) : hs[k].name = name
  ELSE 0

\* obj[name] = value on a map kept in insertion order: a key the map has keeps
\* its place, a new key goes last
SetKey(hs, name, value) ==
  IF KeyIndex(hs, name) # 0
    THEN [hs EXCEPT ![KeyIndex(hs, name)] = [name |-> name, t |-> "string", value |-> value]]
  ELSE Append(hs, [name |-> name, t |-> "string", value |-> value])

\* obj[name], "" for undefined
GetKey(hs, name) ==
  IF KeyIndex(hs, name) # 0 THEN hs[KeyIndex(hs, name)].value ELSE ""

\* this.headers = {}; for (const key in config.headers) this.headers[key] = ...
RECURSIVE CopyHeaders(_)
CopyHeaders(hs) ==
  IF hs = <<>> THEN <<>>
  ELSE SetKey(CopyHeaders(SubSeq(hs, 1, Len(hs) - 1)), hs[Len(hs)].name, hs[Len(hs)].value)

SharedHeaders(cfg, r) == r.headers

\* config.headers when handle has returned: r.headers is an object of its own,
\* so what a responder sets on it is not set on the configuration's map
ConfigHeadersAfter(cfg, r) == cfg.headers

\* new R(rxfs, req, res, id), with the response res not yet written to.
\* fsops lists the filesystem calls made for the request so far;
\* rel0 and abs0 are rel and abs before the index.html substitution; items are
\* the rows of the listing sent and listed the items sendDir made of the
\* dirents, in the order readdirSync gave them.
NewR(cfg, fs, method, url, id) ==
  LET rel == ResolveRel(cfg, url)
      abs == ResolveAbs(cfg, rel)
      sub == Substitutes(cfg, fs, abs)
  IN  [id      |-> id,
       method  |-> method,
       url     |-> url,
       headers |-> CopyHeaders(cfg.headers),
       rel0    |-> rel,
       abs0    |-> abs,
       rel     |-> IF sub THEN (IF rel # <<>> THEN rel \o <<"/">> \o IndexHtml
                                ELSE IndexHtml)
                   ELSE rel,
       abs     |-> IF sub THEN abs \o <<"/">> \o IndexHtml ELSE abs,
       fsops   |-> IF cfg.autoindex THEN <<"existsSync">> ELSE <<>>,
       \* the response
       status  |-> 0,
       kind    |-> "",
       msg     |-> "",
       items   |-> <<>>,
       listed  |-> <<>>,
       ended   |-> 0,
       written |-> 0,
       taken   |-> 0,
       \* the read stream of sendFile
       stream  |-> "none",
       read    |-> 0,
       thrown  |-> FALSE]

\* r.headers['content-type'] = ...; r.res.writeHead(code, r.headers)
WriteHead(r, code, ctype) ==
  [r EXCEPT !.status = code, !.headers = SetKey(r.headers, "content-type", ctype)]

\* sendStatus(r, code, msg)
SendStatus(r, code, msg) ==
  [WriteHead(r, code, "text/plain") EXCEPT !.kind = "status", !.msg = msg,
                                           !.ended = r.ended + 1]

\* path.parse(abs).ext.slice(1).toLowerCase(): of the names of this model only
\* index.html has an extension
Ext(abs) == IF Len(abs) > 0 /\ abs[Len(abs)] = "index.html" THEN "html" ELSE ""

\* the built-in table mimes, at the extensions of this model
Mimes == <<[name |-> "html", t |-> "string", value |-> "text/html"]>>

\* this.config.mimes[ext] || mimes[ext] || `application/octet-stream`
FileContentType(cfg, abs) ==
  IF GetKey(cfg.mimes, Ext(abs)) # "" THEN GetKey(cfg.mimes, Ext(abs))
  ELSE IF GetKey(Mimes, Ext(abs)) # "" THEN GetKey(Mimes, Ext(abs))
  ELSE "application/octet-stream"

\* sendFile(r) up to its return: the headers are written and the stream is open
SendFile(cfg, r) ==
  [WriteHead(r, 200, FileContentType(cfg, r.abs)) EXCEPT
     !.kind = "file", !.stream = "open", !.fsops = Append(r.fsops, "createReadStream")]

----------------------------------------------------------------------------
(* sendDir and dirview.                                                    *)

\* the orders fs.readdirSync may return the entries of a directory in
Orders(S) ==
  {o \in [1..Cardinality(S) -> S] : \A i, j \in 1..Cardinality(S) : o[i] = o[j] => i = j}

\* the orders of the listing of abs; one empty order when it cannot be listed
ListingOrders(fs, abs) == Orders(ReaddirSync(fs, abs).entries)

\* the loop of sendDir over the dirents from the i-th on: [err, items, ops].
\* An item is [type, name, size]; size is the entry count of a directory, -1
\* for 'N/A', and 0 for a file (file sizes and times are not modelled).
RECURSIVE ListItems(_, _, _, _)
ListItems(fs, abs, order, i) ==
  IF i > Len(order) THEN [err |-> "", items |-> <<>>, ops |-> <<>>]
  ELSE
    LET name  == order[i][Len(order[i])]
        kind  == fs[order[i]].kind
        child == abs \o <<"/">> \o name
        rest  == ListItems(fs, abs, order, i + 1)
    IN  IF kind \in {"file", "dir"} THEN
          LET st == StatSync(fs, child)
          IN  IF st.err # "" THEN [err |-> st.err, items |-> <<>>, ops |-> <<"statSync">>]
              ELSE IF kind = "file" THEN
                [err   |-> rest.err,
                 items |-> <<[type |-> "file", name |-> name, size |-> 0]>> \o rest.items,
                 ops   |-> <<"statSync">> \o rest.ops]
              ELSE
                LET sub  == ReaddirSync(fs, child)
                    size == IF sub.err # "" THEN -1 ELSE Cardinality(sub.entries)
                IN  [err   |-> rest.err,
                     items |-> <<[type |-> "dir", name |-> name, size |-> size]>>
                               \o rest.items,
                     ops   |-> <<"statSync", "readdirSync">> \o rest.ops]
        ELSE
          [err   |-> rest.err,
           items |-> <<[type |-> "etc", name |-> name, size |-> 0]>> \o rest.items,
           ops   |-> rest.ops]

\* the table rows of dirview(config, relpath, items): the parent row, then the
\* directory rows, then the file rows; the branch for other items adds nothing
Dirview(rel, items) ==
  (IF rel # <<>> THEN <<[type |-> "up", name |-> <<".", ".">>, size |-> 0]>> ELSE <<>>)
  \o SelectSeq(items, LAMBDA it : it.type = "dir")
  \o SelectSeq(items, LAMBDA it : it.type = "file")

\* sendDir(r): thrown when readdirSync or a child's statSync throws
SendDir(r, fs, order) ==
  LET rd == ReaddirSync(fs, r.abs)
  IN  IF rd.err # ""
        THEN [r EXCEPT !.thrown = TRUE, !.fsops = Append(r.fsops, "readdirSync")]
      ELSE
        LET li == ListItems(fs, r.abs, order, 1)
            r1 == [r EXCEPT !.fsops = Append(r.fsops, "readdirSync") \o li.ops]
        IN  IF li.err # "" THEN [r1 EXCEPT !.thrown = TRUE]
            ELSE [WriteHead(r1, 200, "text/html") EXCEPT
                    !.kind = "dir", !.items = Dirview(r.rel, li.items),
                    !.listed = li.items,
                    !.ended = r.ended + 1]

----------------------------------------------------------------------------
(* RXFS.handle.                                                            *)

\* !req.url.startsWith(`/${ baseurl }`) && req.url !== `/${ baseurl }/`
OutsideBase(cfg, url) ==
  /\ ~StartsWith(url, <<"/">> \o cfg.baseurl)
  /\ url # <<"/">> \o cfg.baseurl \o <<"/">>

\* handle(req, res) after new R: the request when the listener has returned or thrown
Handled(cfg, fs, r, order) ==
  IF r.method # "GET" THEN SendStatus(r, 405, "method not allowed")
  ELSE IF OutsideBase(cfg, r.url) THEN SendStatus(r, 404, "not found")
  ELSE
    LET stats == StatSync(fs, r.abs)
        r1    == [r EXCEPT !.fsops = Append(r.fsops, "statSync")]
    IN  IF stats.err = "ENOENT" THEN SendStatus(r1, 404, "not found")
        ELSE IF stats.err # "" THEN SendStatus(r1, 500, stats.err)
        ELSE IF stats.kind = "file" THEN SendFile(cfg, r1)
        ELSE IF stats.kind = "dir" THEN
          IF cfg.servedir THEN SendDir(r1, fs, order)
          ELSE SendStatus(r1, 400, "the server is not configured to serve directories")
        ELSE SendStatus(r1, 400, "the requested item is not a file or directory")

\* the lines handle and the responders it calls log for the request
HandleLog(r) ==
  <<[id |-> r.id, line |-> "REQ"]>>
  \o (IF r.kind = "status" THEN <<[id |-> r.id, line |-> "RES [status]"]>>
      ELSE IF r.kind = "dir" THEN <<[id |-> r.id, line |-> "RES [dir] OK"]>>
      ELSE <<>>)

----------------------------------------------------------------------------
(* The inputs of the model.                                                *)

NodeKinds == {Absent, File, Etc, Dir, DirNoList, DirNoSearch}

\* /r is a directory; /r/x is anything, with or without an index.html in it;
\* /r/index.html and /x (outside /r) are absent or files
AllFileSystems ==
  {fs \in [FsPaths -> NodeKinds] :
     /\ fs[<<Str("r")>>] = Dir
     /\ fs[<<Str("r"), Str("x"), IndexHtml>>] \in {Absent, File, Dir}
     /\ fs[<<Str("r"), IndexHtml>>] \in {Absent, File}
     /\ fs[<<Str("x")>>] \in {Absent, File}
     /\ FsConsistent(fs)}

\* the filesystems of SpecResolve: with a file /x outside /r
FileSystems == {fs \in AllFileSystems : fs[<<Str("x")>>] = File}

\* the filesystems of the server runs: nothing but /r/x and its index.html
ServeFileSystems ==
  {fs \in AllFileSystems : /\ fs[<<Str("r"), IndexHtml>>] = Absent
                           /\ fs[<<Str("x")>>] = Absent
                           /\ fs[<<Str("r"), Str("x"), IndexHtml>>] # Dir}

NoOpts == [k \in OptKeys |-> Missing]

\* the two flags as the options give them: left out, true or false
FlagOpts == {Missing, BoolOpt(TRUE), BoolOpt(FALSE)}

\* a header map with a value that is no string
BadHeaders == ObjOpt(<<[name |-> "x-n", t |-> "number", value |-> "1"]>>)

\* a MIME override map with a value that is no string
BadMimes == ObjOpt(<<[name |-> "html", t |-> "boolean", value |-> "true"]>>)

\* the options of SpecConfig: every key left out, well-typed, ill-typed or out of range
AllOpts ==
  {[root |-> rt, port |-> pt, baseurl |-> b, autoindex |-> a, servedir |-> sd,
    headers |-> h, mimes |-> mm, colour |-> c] :
     rt \in {Missing, StrOpt(<<>>), StrOpt(<<"/">>), StrOpt(<<"/", "x">>)},
     pt \in {Missing, NumOpt(0), NumOpt(80), NumOpt(65536)},
     b  \in {Missing, StrOpt(<<"/", "/", "s", "/">>)},
     a  \in FlagOpts \cup {StrOpt(<<"/">>)},
     sd \in FlagOpts,
     h  \in {Missing, BadHeaders},
     mm \in {Missing, BadMimes},
     c  \in {Missing, BoolOpt(TRUE)}}

\* the options of SpecResolve: root /r (the default '.') or /, base URL '' or 's',
\* listing directories (the default) or substituting index.html
ResolveOpts ==
  {[NoOpts EXCEPT !.root = rt, !.baseurl = b, !.autoindex = f[1], !.servedir = f[2]] :
     rt \in {Missing, StrOpt(<<"/">>)},
     b  \in {Missing, StrOpt(<<"/", "s">>)},
     f  \in {<<Missing, Missing>>, <<BoolOpt(TRUE), BoolOpt(FALSE)>>}}

\* the options of Spec: the default mount, with and without the two flags
ServeOpts ==
  {[NoOpts EXCEPT !.autoindex = a, !.servedir = sd] :
     a  \in {Missing, BoolOpt(TRUE)},
     sd \in {Missing, BoolOpt(FALSE)}}

\* a header map of the options: a header of its own and a content-type
CustomHeaders ==
  ObjOpt(<<[name |-> "x-a", t |-> "string", value |-> "1"],
           [name |-> "content-type", t |-> "string", value |-> "text/css"]>>)

\* a MIME override of the options
CustomMimes == ObjOpt(<<[name |-> "html", t |-> "string", value |-> "text/x-html"]>>)

\* the options of SpecHeaders: those of Spec, with and without headers and mimes
HeaderOpts ==
  {[o EXCEPT !.headers = h, !.mimes = mm] :
     o \in ServeOpts, h \in {Missing, CustomHeaders}, mm \in {Missing, CustomMimes}}

Methods == {"GET", "POST"}

\* what request URLs are built from
Pieces == {<<"/">>, <<"s">>, <<"x">>, <<".", ".">>, <<"%", "2", "F">>, <<"%">>}

RECURSIVE Concats(_)
Concats(n) ==
  IF n = 0 THEN {<<>>}
  ELSE LET shorter == Concats(n - 1)
       IN  shorter \cup {u \o p : u \in shorter, p \in Pieces}

\* the request URLs of SpecResolve: a slash and up to MaxPieces pieces
Urls == {<<"/">> \o u : u \in Concats(MaxPieces)}

\* the request URLs of Spec: the root, /r/x and a path that does not exist
ServeUrls == {<<"/">>, <<"/", "x">>, <<"/", "s">>}

----------------------------------------------------------------------------
(* The actions.                                                            *)

\* new RXFS(opts) up to server.listen: Config, then the root must be a directory
Construct ==
  /\ server = "none"
  /\ config' = NewConfig(opts)
  /\ server' = IF config'.ok /\ StatSync(fsys, config'.root).kind = "dir"
               THEN "listening" ELSE "failed"
  /\ UNCHANGED <<opts, fsys, reqcount, rs, log, crashed>>

StuckCount(n) == n

\* this.reqcount++
NextCount(n) == n + 1

\* handle(req, res), the whole listener, for a request with one of the methods
\* and one of the URLs; max bounds the requests of a run
Handle(methods, urls, max) ==
  /\ server = "listening" /\ ~crashed
  /\ Len(rs) < max
  /\ \E method \in methods, url \in urls :
       \E r0 \in {NewR(config, fsys, method, url, RequestId(reqcount))} :
         \E order \in ListingOrders(fsys, r0.abs) :
           \E r \in {Handled(config, fsys, r0, order)} :
             /\ rs' = Append(rs, r)
             /\ log' = log \o HandleLog(r)
             /\ crashed' = r.thrown
             /\ config' = [config EXCEPT !.headers = ConfigHeadersAfter(config, r)]
  /\ reqcount' = NextCount(reqcount)
  /\ UNCHANGED <<opts, server, fsys>>

\* the requests whose read stream is open
Streaming == {i \in 1..Len(rs) : rs[i].stream = "open"}

\* stream.on('data', chunk => r.res.write(chunk))
StreamData(i) ==
  /\ ~crashed /\ i \in Streaming
  /\ rs[i].read < MaxChunks
  /\ rs' = [rs EXCEPT ![i].read = @ + 1, ![i].written = @ + 1]
  /\ UNCHANGED <<opts, config, server, fsys, reqcount, log, crashed>>

StreamErrorNoEnd(i) ==
  /\ ~crashed /\ i \in Streaming
  /\ rs' = [rs EXCEPT ![i].stream = "errored"]
  /\ log' = Append(log, [id |-> rs[i].id, line |-> "RES [file] error"])
  /\ UNCHANGED <<opts, config, server, fsys, reqcount, crashed>>

\* stream.on('error', err => { r.res.end(); ...; this.log(...) })
StreamError(i) ==
  /\ ~crashed /\ i \in Streaming
  /\ rs' = [rs EXCEPT ![i].stream = "errored", ![i].ended = @ + 1]
  /\ log' = Append(log, [id |-> rs[i].id, line |-> "RES [file] error"])
  /\ UNCHANGED <<opts, config, server, fsys, reqcount, crashed>>

\* stream.on('end', () => { r.res.end(); this.log(...) })
StreamEnd(i) ==
  /\ ~crashed /\ i \in Streaming
  /\ rs' = [rs EXCEPT ![i].stream = "ended", ![i].ended = @ + 1]
  /\ log' = Append(log, [id |-> rs[i].id, line |-> "RES [file] OK"])
  /\ UNCHANGED <<opts, config, server, fsys, reqcount, crashed>>

\* the client takes the next chunk written to the response
ClientTake(i) ==
  /\ ~crashed /\ i \in 1..Len(rs)
  /\ rs[i].taken < rs[i].written
  /\ rs' = [rs EXCEPT ![i].taken = @ + 1]
  /\ UNCHANGED <<opts, config, server, fsys, reqcount, log, crashed>>

----------------------------------------------------------------------------
(* The specifications.                                                     *)

InitWith(os, fss) ==
  /\ opts \in os
  /\ fsys \in fss
  /\ config = NoConfig
  /\ server = "none"
  /\ reqcount = 0
  /\ rs = <<>>
  /\ log = <<>>
  /\ crashed = FALSE

\* the server: up to MaxReqs requests, in flight together
Init == InitWith(ServeOpts, ServeFileSystems)

Next ==
  \/ Construct
  \/ Handle(Methods, ServeUrls, MaxReqs)
  \/ \E i \in 1..MaxReqs : StreamData(i)
  \/ \E i \in 1..MaxReqs : StreamError(i)
  \/ \E i \in 1..MaxReqs : StreamEnd(i)
  \/ \E i \in 1..MaxReqs : ClientTake(i)

Spec == Init /\ [][Next]_vars

\* one request of every method and URL, under every configuration and filesystem
InitResolve == InitWith(ResolveOpts, FileSystems)

NextResolve ==
  \/ Construct
  \/ Handle(Methods, Urls, 1)

SpecResolve == InitResolve /\ [][NextResolve]_vars

\* construction from every options object, then one request
InitConfig == InitWith(AllOpts, {fs \in ServeFileSystems : fs[<<Str("r"), Str("x")>>] = File})

NextConfig ==
  \/ Construct
  \/ Handle(Methods, {<<"/", "x">>}, 1)

SpecConfig == InitConfig /\ [][NextConfig]_vars

\* the server under its header and MIME options: requests whose streams end or fail
InitHeaders == InitWith(HeaderOpts, ServeFileSystems)

NextHeaders ==
  \/ Construct
  \/ Handle(Methods, ServeUrls, MaxReqs)
  \/ \E i \in 1..MaxReqs : StreamError(i)
  \/ \E i \in 1..MaxReqs : StreamEnd(i)

SpecHeaders == InitHeaders /\ [][NextHeaders]_vars

----------------------------------------------------------------------------
(* The claims.                                                             *)

Requests == 1..Len(rs)

LoggedIn(lg, id, line) == \E k \in 1..Len(lg) : lg[k] = [id |-> id, line |-> line]

\* C1: every request handed to handle ends in a state in which its response has
\* been ended exactly once: once the listener has returned or thrown and no read
\* stream is open for it, res.end was called one time.
C1_EndedExactlyOnce ==
  \A i \in Requests : rs[i].stream # "open" => rs[i].ended = 1

\* C2: a request whose method is not GET is answered 405 and no filesystem call
\* is made for it, under every configuration.
C2_NoFilesystemBefore405 ==
  \A i \in Requests :
    rs[i].method # "GET" => (rs[i].status = 405 /\ rs[i].fsops = <<>>)

\* the raw URL is neither '/b' nor begins with '/b/'
OutsidePrefix(b, url) ==
  /\ url # <<"/">> \o b
  /\ ~StartsWith(url, <<"/">> \o b \o <<"/">>)

\* C3: with a non-empty base URL b, a GET whose raw URL is neither '/b' nor
\* begins with '/b/' is answered 404, whatever exists under root.
C3_OutsideBaseIs404 ==
  \A i \in Requests :
    (/\ config.baseurl # <<>>
     /\ rs[i].method = "GET"
     /\ OutsidePrefix(config.baseurl, rs[i].url))
    => (rs[i].status = 404 /\ rs[i].kind = "status")

\* C4: no request raises an exception out of the request listener, so the
\* process lives on and every request in flight gets its response.
C4_NoUncaughtException ==
  /\ ~crashed
  /\ \A i \in Requests : ~rs[i].thrown

\* non-empty segments, no leading or trailing slash
ValidRelPath(p) ==
  /\ p # <<>>
  /\ \A k \in 1..Len(Split(p)) : Split(p)[k] # <<>>

\* '/' + baseurl + '/'
MountPrefix(cfg) == <<"/">> \o cfg.baseurl \o <<"/">>

\* the p of a URL '/' + baseurl + '/' + p
PathOf(cfg, url) == Drop(url, Len(MountPrefix(cfg)))

\* C5 as stated: for every configuration and every valid relative path p, the
\* URL '/' + baseurl + '/' + p resolves to rel = p and abs = root + '/' + p, and
\* the empty relative path resolves to root.
C5_RoundTripAsStated ==
  \A i \in Requests :
    StartsWith(rs[i].url, MountPrefix(config)) =>
      LET p == PathOf(config, rs[i].url)
      IN  /\ ValidRelPath(p) =>
               (rs[i].rel = p /\ rs[i].abs = config.root \o <<"/">> \o p)
          /\ p = <<>> => (rs[i].rel = <<>> /\ rs[i].abs = config.root)

\* C5 amended: when percent-decoding leaves the URL as it is and no index.html
\* is substituted, the URL '/' + baseurl + '/' + p of a valid relative path p
\* resolves to rel = p and abs = root + '/' + p, abs = '/' + p for the root '/';
\* the empty relative path resolves to root.
C5_RoundTrip ==
  \A i \in Requests :
    (/\ StartsWith(rs[i].url, MountPrefix(config))
     /\ DecodeOrRaw(rs[i].url) = rs[i].url
     /\ ~Substitutes(config, fsys, rs[i].abs0))
    => LET p == PathOf(config, rs[i].url)
       IN  /\ ValidRelPath(p) =>
                /\ rs[i].rel = p
                /\ rs[i].abs = IF config.root = <<"/">> THEN <<"/">> \o p
                               ELSE config.root \o <<"/">> \o p
           /\ p = <<>> => (rs[i].rel = <<>> /\ rs[i].abs = config.root)

\* C5 witness: '/s/x' under the base URL 's' and the root '/r' resolved to x and /r/x
C5_Witness ==
  \E i \in Requests :
    /\ config.baseurl = <<"s">> /\ config.root = <<"/", "r">>
    /\ rs[i].url = <<"/", "s", "/", "x">>
    /\ rs[i].rel = <<"x">> /\ rs[i].abs = <<"/", "r", "/", "x">>

\* the request is a GET inside the base URL for a directory
GetsDirectory(i) ==
  /\ rs[i].method = "GET"
  /\ ~OutsideBase(config, rs[i].url)
  /\ StatSync(fsys, rs[i].abs0).kind = "dir"

IndexOf_abs0(i) == rs[i].abs0 \o <<"/">> \o IndexHtml

BothFlags(c) == c.autoindex /\ c.servedir

\* C7: a Config that construction returns never has autoindex and servedir
\* both true: construction fails whenever the given options over the defaults
\* have both flags true, and no request is handled under such a configuration.
C7_FlagsExclusive ==
  /\ (server # "none" /\ config.ok) => ~BothFlags(config)
  /\ (server # "none" /\ Merged(opts).autoindex.b /\ Merged(opts).servedir.b)
       => ~config.ok
  /\ rs # <<>> => (config.ok /\ ~BothFlags(config))

\* C7 witness: autoindex given as true over the default servedir = true, refused
C7_Witness ==
  /\ server = "failed"
  /\ opts.autoindex = BoolOpt(TRUE) /\ opts.servedir = Missing
  /\ config.err = "autoindex and servedir are mutually exclusive"

\* parseInt(id, 10)
RECURSIVE IdNumber(_)
IdNumber(id) ==
  IF id = <<>> THEN 0
  ELSE 10 * IdNumber(SubSeq(id, 1, Len(id) - 1)) + HexVal(id[Len(id)])

\* C8: the ids of the requests are pairwise distinct and strictly increasing in
\* arrival order: each request gets the counter's value, and the counter is
\* then one more.
C8_IdsIncrease ==
  /\ reqcount = Len(rs)
  /\ \A i \in Requests : rs[i].id = RequestId(i - 1)
  /\ \A i, j \in Requests :
       i < j => (rs[i].id # rs[j].id /\ IdNumber(rs[i].id) < IdNumber(rs[j].id))

\* C8 witness: two requests in flight at the same time, each with its id
C8_Witness ==
  /\ Len(rs) >= 2
  /\ rs[1].stream = "open" /\ rs[2].stream = "open"
  /\ rs[1].id = <<"0", "0", "0">> /\ rs[2].id = <<"0", "0", "1">>

\* the response holds a chunk the client has not taken: a chunk of a read
\* stream is larger than the response's high-water mark, so write returned false
ResponseFull(r) == r.written > r.taken

\* C9: while a file is streamed, no chunk is read while the response cannot
\* accept more data, so the chunks read and not yet taken stay bounded.
C9_PausedWhenFull ==
  [][\A i \in Requests : ResponseFull(rs[i]) => rs'[i].read = rs[i].read]_vars

\* C10: once the read stream of a request has emitted an error, the response
\* has been ended once without an exception, its status is 200, no chunk is
\* written to it any more, the error is logged and '[file] OK' is not.
C10_ErrorEndsResponse ==
  [][\A i \in 1..Len(rs') :
       rs'[i].stream = "errored" =>
         /\ rs'[i].status = 200
         /\ rs'[i].ended = 1
         /\ ~rs'[i].thrown
         /\ LoggedIn(log', rs'[i].id, "RES [file] error")
         /\ ~LoggedIn(log', rs'[i].id, "RES [file] OK")
         /\ i \in Requests =>
              (rs'[i].written = rs[i].written /\ rs'[i].taken >= rs[i].taken)]_vars

\* C10 witness: a stream that failed after a chunk was written, the chunk still
\* to be taken by the client
C10_Witness ==
  \E i \in Requests :
    /\ rs[i].stream = "errored"
    /\ rs[i].written >= 1 /\ rs[i].taken < rs[i].written
    /\ LoggedIn(log, rs[i].id, "RES [file] error")

\* the response head of the request has been written
Responded(i) == rs[i].status # 0

\* the header set holds the header, name and value
Carries(hs, h) == \E k \in 1..Len(hs) : hs[k].name = h.name /\ hs[k].value = h.value

\* the content type the claim gives a response of its kind; for a file the
\* override of the configuration, the built-in type, or the default
ExpectedContentType(i) ==
  IF rs[i].kind = "status" THEN "text/plain"
  ELSE IF rs[i].kind = "dir" THEN "text/html"
  ELSE IF \E k \in 1..Len(config.mimes) : config.mimes[k].name = Ext(rs[i].abs)
    THEN config.mimes[CHOOSE k \in 1..Len(config.mimes) :
                        config.mimes[k].name = Ext(rs[i].abs)].value
  ELSE IF Ext(rs[i].abs) = "html" THEN "text/html"
  ELSE "application/octet-stream"

\* the response has one content-type header, of the value of its kind
OneContentType(i) ==
  /\ Cardinality({k \in 1..Len(rs[i].headers) : rs[i].headers[k].name = "content-type"}) = 1
  /\ Carries(rs[i].headers, [name |-> "content-type", value |-> ExpectedContentType(i)])

\* the response has no header but a content-type and the configured ones
NoForeignHeader(i) ==
  \A k \in 1..Len(rs[i].headers) :
    \/ rs[i].headers[k].name = "content-type"
    \/ \E c \in 1..Len(config.headers) : config.headers[c] = rs[i].headers[k]

\* the header map of the configuration is the one construction gave it
ConfigHeadersUnchanged ==
  server = "listening" => config.headers = Merged(opts).headers.h

\* C11 as stated: every response carries every configured header, name and
\* value, and one content-type header of the value of its kind; the
\* configuration's header map stays as constructed and a response has no header
\* that another request set.
C11_HeadersAsStated ==
  /\ ConfigHeadersUnchanged
  /\ \A i \in Requests :
       Responded(i) =>
         /\ \A c \in 1..Len(config.headers) : Carries(rs[i].headers, config.headers[c])
         /\ OneContentType(i)
         /\ NoForeignHeader(i)

\* C11: every response carries every configured header that is not named
\* content-type with its configured value, and one content-type header:
\* text/plain for a status response, text/html for a listing, the resolved MIME
\* type for a file, whatever content-type the configuration names; the
\* configuration's header map stays as constructed and a response has no header
\* that another request set.
C11_Headers ==
  /\ ConfigHeadersUnchanged
  /\ \A i \in Requests :
       Responded(i) =>
         /\ \A c \in 1..Len(config.headers) :
              config.headers[c].name # "content-type" =>
                Carries(rs[i].headers, config.headers[c])
         /\ OneContentType(i)
         /\ NoForeignHeader(i)

\* C11 witness: under configured headers of its own, a file answered with its
\* content type and then a listing answered with text/html
C11_Witness ==
  \E i, j \in Requests :
    /\ i < j
    /\ config.headers = CustomHeaders.h
    /\ rs[i].kind = "file" /\ Responded(i)
    /\ Carries(rs[i].headers, [name |-> "content-type", value |-> "application/octet-stream"])
    /\ rs[j].kind = "dir" /\ Responded(j)
    /\ Carries(rs[j].headers, [name |-> "content-type", value |-> "text/html"])
    /\ Carries(rs[j].headers, [name |-> "x-a", value |-> "1"])

\* the request called fs.statSync
Statted(i) == \E k \in 1..Len(rs[i].fsops) : rs[i].fsops[k] = "statSync"

\* the response is the status response of the code
StatusResponse(i, code) == rs[i].kind = "status" /\ rs[i].status = code /\ ~rs[i].thrown

\* C12: a request that is no GET is answered 405 and a GET outside the base
\* URL 404, both before any stat; a GET inside the base URL is answered by the
\* stat of its absolute path and the servedir flag alone: 404 when the path
\* does not exist, 500 with the error's message on any other stat error, a 200
\* file stream for a regular file, a 200 listing for a directory when servedir
\* is set and 400 when it is not, 400 for anything else.
C12_DispatchByStat ==
  \A i \in Requests :
    IF rs[i].method # "GET" THEN StatusResponse(i, 405) /\ ~Statted(i)
    ELSE IF OutsideBase(config, rs[i].url) THEN StatusResponse(i, 404) /\ ~Statted(i)
    ELSE
      /\ Statted(i)
      /\ StatSync(fsys, rs[i].abs).err = "ENOENT" => StatusResponse(i, 404)
      /\ StatSync(fsys, rs[i].abs).err \notin {"", "ENOENT"} =>
           StatusResponse(i, 500) /\ rs[i].msg = StatSync(fsys, rs[i].abs).err
      /\ StatSync(fsys, rs[i].abs).kind = "file" =>
           rs[i].kind = "file" /\ rs[i].status = 200 /\ rs[i].stream # "none"
      /\ (StatSync(fsys, rs[i].abs).kind = "dir" /\ config.servedir) =>
           rs[i].kind = "dir" /\ rs[i].status = 200 /\ ~rs[i].thrown
      /\ (StatSync(fsys, rs[i].abs).kind = "dir" /\ ~config.servedir) =>
           StatusResponse(i, 400)
      /\ StatSync(fsys, rs[i].abs).kind = "etc" => StatusResponse(i, 400)

\* type and name of each row or item
Keys(items) == [k \in 1..Len(items) |-> [type |-> items[k].type, name |-> items[k].name]]

OfType(items, type) == SelectSeq(Keys(items), LAMBDA it : it.type = type)

\* the entries of the directory the request listed
ListedChildren(i) == Children(fsys, ReaddirSync(fsys, rs[i].abs).names)

\* C13: the rows of a listing are a parent row when the relative path is not
\* empty, then the directories, then the files, then the other entries of the
\* directory, each group in the order readdirSync gave them, and every entry of
\* the directory has exactly one row.
C13_ListingRendersAll ==
  \A i \in Requests :
    rs[i].kind = "dir" =>
      /\ Len(rs[i].listed) = Cardinality(ListedChildren(i))
      /\ \A p \in ListedChildren(i) :
           Cardinality({k \in 1..Len(rs[i].items) :
                          rs[i].items[k].type # "up" /\ rs[i].items[k].name = p[Len(p)]}) = 1
      /\ Keys(rs[i].items) =
           (IF rs[i].rel # <<>> THEN <<[type |-> "up", name |-> <<".", ".">>]>> ELSE <<>>)
           \o OfType(rs[i].listed, "dir")
           \o OfType(rs[i].listed, "file")
           \o OfType(rs[i].listed, "etc")

\* the names from '/' of the location a path denotes, '.' and '..' resolved
Location(path) == LexNames(<<>>, Split(path))

\* the path denotes the root or a location below it
InsideRoot(root, path) ==
  /\ Len(Location(path)) >= Len(Location(root))
  /\ SubSeq(Location(path), 1, Len(Location(root))) = Location(root)

\* C14: whatever the request URL, a request for which the filesystem was asked
\* (existsSync, statSync, createReadStream, readdirSync) has an absolute path
\* that denotes the root or a location inside it.
C14_StaysInsideRoot ==
  \A i \in Requests :
    rs[i].fsops # <<>> => InsideRoot(config.root, rs[i].abs)

====
